---- MODULE Spec2Model ----
(***************************************************************************)
(* Model of the whiteboard relay of server/server.js: the three in-memory  *)
(* maps (rooms, userSessions, roomDrawings), the socket.io room membership *)
(* that the broadcasts go through, the socket event handlers, the async    *)
(* leaveRoom helper with its suspension on the database call, and the      *)
(* deferred eviction timer.                                                *)
(*                                                                         *)
(* Scheduling: Node runs one handler at a time.  A handler is atomic up to *)
(* an await on a database call; that await is a real I/O wait, so other    *)
(* events are processed before the handler resumes.  An await on a promise *)
(* that is already settled (leaveRoom returning at its guard, or with the  *)
(* database not connected) resumes before the next inbound event.          *)
(***************************************************************************)
EXTENDS Integers, Sequences, FiniteSets, Bags, TLC

\* ---------------------------------------------------------------- bounds
MaxConns == 2      \* socket ids 1..MaxConns
MaxLog == 2        \* draw-end is not taken once the logs hold this many strokes
MaxTimers == 1     \* pending eviction timers
MaxGraceTimers == 2  \* pending eviction timers in the grace-window specification
MaxPending == 1    \* handlers suspended on a database call
TickMs == 150000   \* milliseconds that pass in one clock step
MaxApiConns == 1   \* sockets that connect next to the HTTP requests
MaxIdLen == 3      \* length of the ids that normalization is applied to
MaxApply == 2      \* successive applications of normalization

\* ------------------------------------------------------- program constants
GraceMs == 300000  \* 5 * 60 * 1000

Conns == 1..MaxConns

\* ------------------------------------------------------------ room ids
\* A room id is a sequence of one-character strings.
RoomABC == <<"A", "B", "C", "1", "2", "3">>
RoomAbcRaw == <<"a", "b", "c", "1", "2", "3", " ">>
RoomXYZ == <<"X", "Y", "Z", "7", "8", "9">>
RawRoomIds == {RoomABC, RoomAbcRaw, RoomXYZ}

\* ids for the HTTP API and the sockets next to it: a valid id, the same id
\* in lower case with a trailing blank, and an id that is too short
RoomAB == <<"A", "B">>
ApiRoomIds == {RoomABC, RoomAbcRaw, RoomAB}

Lower == <<"a", "b", "c", "x", "y", "z">>
Upper == <<"A", "B", "C", "X", "Y", "Z">>

\* String.prototype.toUpperCase, one character
UpperChar(ch) ==
  IF \E i \in 1..Len(Lower) : Lower[i] = ch
  THEN Upper[CHOOSE i \in 1..Len(Lower) : Lower[i] = ch]
  ELSE ch

toUpperCase(s) == [i \in 1..Len(s) |-> UpperChar(s[i])]

IsSpace(ch) == ch \in {" ", "\t", "\n"}

RECURSIVE TrimLeft(_)
TrimLeft(s) ==
  IF s # <<>> /\ IsSpace(Head(s)) THEN TrimLeft(Tail(s)) ELSE s

RECURSIVE TrimRight(_)
TrimRight(s) ==
  IF s # <<>> /\ IsSpace(s[Len(s)]) THEN TrimRight(SubSeq(s, 1, Len(s) - 1)) ELSE s

\* String.prototype.trim
trim(s) == TrimRight(TrimLeft(s))

\* faulty variant of normalizedRoomId: trimmed but not uppercased
normalizedRoomId_NoUpper(roomId) == trim(roomId)

\* faulty variant of normalizedRoomId: uppercased but not trimmed
normalizedRoomId_NoTrim(roomId) == toUpperCase(roomId)

\* roomId.toUpperCase().trim()
normalizedRoomId(roomId) == trim(toUpperCase(roomId))

RoomKeys == {normalizedRoomId(r) : r \in RawRoomIds \cup ApiRoomIds}

\* /^[A-Z0-9]{6,8}$/
AlnumUpper ==
  {"A", "B", "C", "D", "E", "F", "G", "H", "I", "J", "K", "L", "M", "N", "O",
   "P", "Q", "R", "S", "T", "U", "V", "W", "X", "Y", "Z",
   "0", "1", "2", "3", "4", "5", "6", "7", "8", "9"}

\* faulty variant of IsValidRoomId: no lower limit on the length
IsValidRoomId_NoMinLength(s) ==
  /\ Len(s) <= 8
  /\ \A i \in 1..Len(s) : s[i] \in AlnumUpper

IsValidRoomId(s) ==
  /\ Len(s) >= 6
  /\ Len(s) <= 8
  /\ \A i \in 1..Len(s) : s[i] \in AlnumUpper

\* ------------------------------------------------------------ inputs
\* a user id is a tuple; the empty one stands for a missing (falsy) userId
NoUserId == <<>>
UserIds == {<<"alice">>}
\* what the client sends with draw-end (DrawingCanvas.jsx, lines 222-227),
\* and with draw-start (lines 185-191)
StrokeData == [path |-> <<"pt1", "pt2">>, color |-> "#000000",
               strokeWidth |-> 3, tool |-> "pen"]
StartData == [x |-> 0, y |-> 0, color |-> "#000000", strokeWidth |-> 3,
              tool |-> "pen"]
Paths == {StrokeData}
NoRoom == <<>>

\* ------------------------------------------------------------ maps
EmptyMap == [k \in {} |-> {}]
Has(m, k) == k \in DOMAIN m
MapSet(m, k, v) == [x \in (DOMAIN m) \cup {k} |-> IF x = k THEN v ELSE m[x]]
MapDelete(m, k) == [x \in (DOMAIN m) \ {k} |-> m[x]]

VARIABLES
  status,        \* socket id -> "new" | "connected" | "disconnected"
  rooms,         \* roomId -> set of socket ids
  userSessions,  \* socket id -> [roomId, userId]
  roomDrawings,  \* roomId -> sequence of drawing commands
  sioRooms,      \* socket.io adapter: roomId -> set of socket ids
  timers,        \* pending setTimeout callbacks: bag of [roomId, left]
  pending,       \* bag of leaveRoom calls suspended on the database call
  dbConnected,   \* mongoose.connection.readyState === 1
  emitted,       \* the emits of the last step, in order (see Emit)
  db,            \* the Room collection: roomId -> drawingData of the document
  dbTracked,     \* whether the specification follows the collection (see db)
  response,      \* the HTTP response of the last step, NoResponse if none
  roomIdIn,      \* a room id as a client supplies it
  roomIdOut,     \* the results of normalizing roomIdIn again and again
  collection,    \* the Room collection of routes/rooms.js: bag of documents
  timerCap,      \* the number of timers the specification lets be pending
  fired,         \* the room of the timer callback run in the last step, or NoRoom
  dbFaulty       \* whether the specification lets database calls fail

vars == <<status, rooms, userSessions, roomDrawings, sioRooms, timers,
          pending, dbConnected, emitted, db, dbTracked, response, roomIdIn,
          roomIdOut, collection, timerCap, fired, dbFaulty>>

NoResponse == [status |-> 0]

\* a step that handles no HTTP request, calls no normalization and runs no
\* timer callback
NoRequest ==
  /\ response' = NoResponse
  /\ fired' = NoRoom
  /\ UNCHANGED <<roomIdIn, roomIdOut, dbTracked, collection, timerCap,
                 dbFaulty>>

Connected == {c \in Conns : status[c] = "connected"}

\* Node runs the timer callbacks that are due at the start of a loop
\* iteration, before the I/O callbacks of that iteration.
NoTimerDue == \A t \in BagToSet(timers) : t.left > 0

\* socket c can deliver an inbound event
CanSend(c) == status[c] = "connected" /\ NoTimerDue

\* The relay state a handler works on, as one record.
Cur ==
  [rooms |-> rooms, userSessions |-> userSessions,
   roomDrawings |-> roomDrawings, sioRooms |-> sioRooms,
   timers |-> timers, connected |-> Connected, emitted |-> <<>>,
   db |-> db]

\* the member set of a room in the rooms map
MembersIn(st, roomId) == IF Has(st.rooms, roomId) THEN st.rooms[roomId] ELSE {}

\* An emit of the handler of `socket`, working on room roomId, to the sockets
\* `to`: `data` is the payload and `to` the sockets that receive it (only a
\* connected socket receives anything).  socket, room and members (the
\* room's member set at this moment) are recorded for the properties; they
\* are not part of what is sent.
Emit(st, event, socket, roomId, to, data) ==
  [st EXCEPT !.emitted =
     Append(@, [event |-> event, to |-> to \cap st.connected, data |-> data,
                socket |-> socket, room |-> roomId,
                members |-> MembersIn(st, roomId)])]

\* io.to(roomId)
IoTo(st, roomId) == st.sioRooms[roomId]

\* socket.to(roomId)
SocketTo(st, socket, roomId) == st.sioRooms[roomId] \ {socket}

\* Date.now(): the value is carried in payloads and never read by the server
DateNow == "Date.now()"

\* userId || `user-${Date.now()}`
UserIdOrDefault(userId) ==
  IF userId = NoUserId THEN <<"user-", DateNow>> ELSE userId

\* faulty variant of leaveRoomSync: the count is sent before socket.leave, so
\* the leaver is still in the socket.io room
leaveRoomSync_EmitBeforeLeave(st, socket, roomId) ==
  LET roomUsers == st.rooms[roomId] \ {socket}
      userCount == Cardinality(roomUsers)
      st1 == Emit([st EXCEPT !.rooms = MapSet(@, roomId, roomUsers)],
                  "user-count-update", socket, roomId, IoTo(st, roomId),
                  [count |-> userCount])
  IN [st1 EXCEPT
        !.rooms = IF userCount = 0
                  THEN MapDelete(st.rooms, roomId)
                  ELSE MapSet(st.rooms, roomId, roomUsers),
        !.sioRooms = [@ EXCEPT ![roomId] = @ \ {socket}],
        !.timers = IF userCount = 0
                   THEN @ (+) SetToBag({[roomId |-> roomId,
                                         left |-> GraceMs]})
                   ELSE @]

\* leaveRoom, lines 277-298: everything before the database call
leaveRoomSync(st, socket, roomId) ==
  LET roomUsers == st.rooms[roomId] \ {socket}
      userCount == Cardinality(roomUsers)
      st1 == [st EXCEPT
                !.rooms = IF userCount = 0
                          THEN MapDelete(st.rooms, roomId)
                          ELSE MapSet(st.rooms, roomId, roomUsers),
                !.sioRooms = [@ EXCEPT ![roomId] = @ \ {socket}],
                !.timers = IF userCount = 0
                           THEN @ (+) SetToBag({[roomId |-> roomId,
                                                 left |-> GraceMs]})
                           ELSE @]
  IN Emit(st1, "user-count-update", socket, roomId, IoTo(st1, roomId),
          [count |-> userCount])

\* leaveRoom, line 312: after the database call
leaveRoomDone(st, socket) ==
  [st EXCEPT !.userSessions = MapDelete(@, socket)]

\* the outcomes of a database call: it is carried out (TRUE) or rejected
Outcomes == IF dbFaulty THEN BOOLEAN ELSE {TRUE}

\* faulty variant of dbCatch: the failure is reported to the client
dbCatch_ReportsError(st, socket) ==
  Emit(st, "error", socket, NoRoom, {socket},
       [message |-> "Warning: Could not update database"])

\* the catch blocks of the database calls (lines 128-130, 216-218, 249-251
\* and 307-309): the warning is written to the console.  The line is
\* recorded among the emits, with no recipient.
dbCatch(st, socket) ==
  Emit(st, "console.log", socket, NoRoom, {},
       [message |-> "Warning: Could not update database"])

\* leaveRoom, lines 301-312: the database call has settled
leaveRoomSettled(st, socket, ok) ==
  leaveRoomDone(IF ok THEN st ELSE dbCatch(st, socket), socket)

\* faulty variant of joinRoomBody: the count is taken before the joiner is added
joinRoomBody_CountBeforeAdd(st, socket, roomId, userId) ==
  LET isNew == ~Has(st.rooms, roomId)
      rooms0 == IF isNew THEN MapSet(st.rooms, roomId, {}) ELSE st.rooms
      drawings1 == IF isNew THEN MapSet(st.roomDrawings, roomId, <<>>)
                   ELSE st.roomDrawings
      rooms1 == MapSet(rooms0, roomId, rooms0[roomId] \cup {socket})
      userCount == Cardinality(rooms0[roomId])
      drawingData == IF Has(drawings1, roomId) THEN drawings1[roomId] ELSE <<>>
      st1 == [st EXCEPT
                !.sioRooms = [@ EXCEPT ![roomId] = @ \cup {socket}],
                !.rooms = rooms1,
                !.roomDrawings = drawings1,
                !.userSessions = MapSet(@, socket,
                                   [roomId |-> roomId, userId |-> userId])]
      st2 == Emit(st1, "drawing-data", socket, roomId, {socket},
                  [drawingData |-> drawingData])
      st3 == Emit(st2, "room-joined", socket, roomId, IoTo(st2, roomId),
                  [roomId |-> roomId, userCount |-> userCount])
  IN Emit(st3, "user-count-update", socket, roomId, IoTo(st3, roomId),
          [count |-> userCount])

\* join-room handler, lines 89-116
joinRoomBody(st, socket, roomId, userId) ==
  LET isNew == ~Has(st.rooms, roomId)
      rooms0 == IF isNew THEN MapSet(st.rooms, roomId, {}) ELSE st.rooms
      drawings1 == IF isNew THEN MapSet(st.roomDrawings, roomId, <<>>)
                   ELSE st.roomDrawings
      rooms1 == MapSet(rooms0, roomId, rooms0[roomId] \cup {socket})
      userCount == Cardinality(rooms1[roomId])
      drawingData == IF Has(drawings1, roomId) THEN drawings1[roomId] ELSE <<>>
      st1 == [st EXCEPT
                !.sioRooms = [@ EXCEPT ![roomId] = @ \cup {socket}],
                !.rooms = rooms1,
                !.roomDrawings = drawings1,
                !.userSessions = MapSet(@, socket,
                                   [roomId |-> roomId, userId |-> userId])]
      st2 == Emit(st1, "drawing-data", socket, roomId, {socket},
                  [drawingData |-> drawingData])
      st3 == Emit(st2, "room-joined", socket, roomId, IoTo(st2, roomId),
                  [roomId |-> roomId, userCount |-> userCount])
  IN Emit(st3, "user-count-update", socket, roomId, IoTo(st3, roomId),
          [count |-> userCount])

\* Does leaveRoom(socket, roomId) wait on the database?  (lines 277, 301)
leaveRoomWaits(st, roomId) == Has(st.rooms, roomId) /\ dbConnected

\* faulty variant of leaveRoom: the guard of line 277 does not test rooms.has, and a
\* room without an entry is handled as an empty one
leaveRoom_NoRoomGuard(st, socket, roomId) ==
  LET st0 == IF Has(st.rooms, roomId) THEN st
             ELSE [st EXCEPT !.rooms = MapSet(@, roomId, {})]
  IN IF dbConnected THEN leaveRoomSync(st0, socket, roomId)
     ELSE leaveRoomDone(leaveRoomSync(st0, socket, roomId), socket)

\* The state when control leaves leaveRoom for the first time.
leaveRoom(st, socket, roomId) ==
  IF ~Has(st.rooms, roomId) THEN st
  ELSE IF dbConnected THEN leaveRoomSync(st, socket, roomId)
  ELSE leaveRoomDone(leaveRoomSync(st, socket, roomId), socket)

\* { ...data, userId, socketId, timestamp, type: 'stroke' } of the draw-end
\* handler, lines 188-194: the properties of the payload, then the four of
\* the server, which replace a property of the payload with the same name
strokeOf(data, session, socket) ==
  [userId |-> session.userId, socketId |-> socket, timestamp |-> DateNow,
   type |-> "stroke"] @@ data

\* The Room collection.  Of a document only drawingData is kept: the server
\* never reads activeUsers or lastActivity back.  A write takes effect when
\* the handler issues it.  No socket handler reads the collection, so the
\* specification of the relay leaves its contents out (dbTracked is FALSE
\* and db stays as it starts); the specification of the HTTP API, whose
\* join request reads it, follows every write.
\* Room.findOneAndUpdate({ roomId }, ..., { upsert: true }) with an update
\* that sets drawingData to f(old drawingData); a new document starts with
\* the schema default []
dbLog(d, roomId) == IF Has(d, roomId) THEN d[roomId] ELSE <<>>

\* join-room handler, lines 121-131: upsert of activeUsers and lastActivity
joinRoomSave(st, socket, roomId, ok) ==
  IF ~dbConnected THEN st
  ELSE IF ok THEN [st EXCEPT !.db = MapSet(@, roomId, dbLog(@, roomId))]
  ELSE dbCatch(st, socket)

\* draw-end handler, lines 206-219: $push of the stroke
drawEndSave(st, socket, path, ok) ==
  IF ~(dbConnected /\ Has(st.userSessions, socket)) THEN st
  ELSE IF ok
  THEN LET session == st.userSessions[socket]
           drawData == strokeOf(path, session, socket)
       IN [st EXCEPT !.db = MapSet(@, session.roomId,
                                   Append(dbLog(@, session.roomId), drawData))]
  ELSE dbCatch(st, socket)

\* clear-canvas handler, lines 239-252: drawingData: []
clearCanvasSave(st, socket, ok) ==
  IF ~(dbConnected /\ Has(st.userSessions, socket)) THEN st
  ELSE IF ok
  THEN [st EXCEPT !.db = MapSet(@, st.userSessions[socket].roomId, <<>>)]
  ELSE dbCatch(st, socket)

Suspended(socket, cont, roomId, userId) ==
  [socket |-> socket, cont |-> cont, roomId |-> roomId, userId |-> userId]

\* Write the record a handler ends with back into the variables.
Commit(st) ==
  /\ BagCardinality(st.timers) <= timerCap
  /\ rooms' = st.rooms
  /\ userSessions' = st.userSessions
  /\ roomDrawings' = st.roomDrawings
  /\ sioRooms' = st.sioRooms
  /\ timers' = st.timers
  /\ emitted' = st.emitted
  /\ db' = IF dbTracked THEN st.db ELSE db

Suspend(p) ==
  /\ BagCardinality(pending) < MaxPending
  /\ pending' = pending (+) SetToBag({p})

\* the state after the module has loaded
Started ==
  /\ status = [c \in Conns |-> "new"]
  /\ rooms = EmptyMap
  /\ userSessions = EmptyMap
  /\ roomDrawings = EmptyMap
  /\ sioRooms = [r \in RoomKeys |-> {}]
  /\ timers = EmptyBag
  /\ pending = EmptyBag
  /\ dbConnected = FALSE
  /\ emitted = <<>>
  /\ db = EmptyMap
  /\ response = NoResponse
  /\ roomIdOut = <<>>
  /\ collection = EmptyBag
  /\ fired = NoRoom

\* what every specification but one starts with: the default number of
\* timers, and database calls that succeed
Defaults == timerCap = MaxTimers /\ dbFaulty = FALSE

Init == Started /\ dbTracked = FALSE /\ roomIdIn = <<>> /\ Defaults

\* io.on('connection')
Connect(c) ==
  /\ status[c] = "new"
  /\ NoTimerDue
  /\ \A d \in 1..(c - 1) : status[d] # "new"
  /\ status' = [status EXCEPT ![c] = "connected"]
  /\ emitted' = <<>>
  /\ NoRequest
  /\ UNCHANGED <<rooms, userSessions, roomDrawings, sioRooms, timers,
                 pending, dbConnected, db>>

\* connectDB resolves
ConnectDB ==
  /\ ~dbConnected
  /\ NoTimerDue
  /\ dbConnected' = TRUE
  /\ emitted' = <<>>
  /\ NoRequest
  /\ UNCHANGED <<status, rooms, userSessions, roomDrawings, sioRooms, timers,
                 pending, db>>

\* join-room handler, lines 81-131, up to its end or to the wait inside
\* leaveRoom; ok is the outcome of the database call of lines 123-127
joinRoom(st, socket, roomId, userId, ok) ==
  LET n == normalizedRoomId(roomId)
      uid == UserIdOrDefault(userId)
      hasPrev == Has(st.userSessions, socket)
      prevRoom == st.userSessions[socket].roomId
  IN IF hasPrev /\ leaveRoomWaits(st, prevRoom)
     THEN leaveRoomSync(st, socket, prevRoom)
     ELSE joinRoomSave(joinRoomBody(
            IF hasPrev THEN leaveRoom(st, socket, prevRoom) ELSE st,
            socket, n, uid), socket, n, ok)

\* socket.on('join-room')
JoinRoomWith(c, roomId, userId, ok) ==
  /\ CanSend(c)
  /\ Commit(joinRoom(Cur, c, roomId, userId, ok))
  /\ IF Has(userSessions, c) /\ leaveRoomWaits(Cur, userSessions[c].roomId)
     THEN Suspend(Suspended(c, "join", normalizedRoomId(roomId),
                            UserIdOrDefault(userId)))
     ELSE UNCHANGED pending
  /\ NoRequest
  /\ UNCHANGED <<status, dbConnected>>

JoinRoom(c, roomId, userId) ==
  \E ok \in Outcomes : JoinRoomWith(c, roomId, userId, ok)

\* leave-room and disconnect handlers, lines 259-262 and 267-270
leaveHandler(st, socket) ==
  IF Has(st.userSessions, socket)
  THEN leaveRoom(st, socket, st.userSessions[socket].roomId)
  ELSE st

\* Does the handler leave a leaveRoom call waiting on the database?
leaveHandlerWaits(st, socket) ==
  /\ Has(st.userSessions, socket)
  /\ leaveRoomWaits(st, st.userSessions[socket].roomId)

\* socket.on('leave-room')
LeaveRoom(c) ==
  /\ CanSend(c)
  /\ Commit(leaveHandler(Cur, c))
  /\ IF leaveHandlerWaits(Cur, c)
     THEN Suspend(Suspended(c, "leave", NoRoom, NoUserId))
     ELSE UNCHANGED pending
  /\ NoRequest
  /\ UNCHANGED <<status, dbConnected>>

\* leaveRoom from its database call on (lines 301-312), and the join-room
\* handler that awaited it (lines 89-131)
leaveRoomResumed(st, p, ok, okSave) ==
  LET st1 == leaveRoomSettled(st, p.socket, ok)
  IN IF p.cont = "join"
     THEN joinRoomSave(joinRoomBody(st1, p.socket, p.roomId, p.userId),
                       p.socket, p.roomId, okSave)
     ELSE st1

\* the database call of a suspended leaveRoom settles with outcome ok; a
\* join-room handler goes on to its own database call, with outcome okSave
LeaveRoomResumeWith(p, ok, okSave) ==
  /\ BagIn(p, pending)
  /\ p.cont \in {"join", "leave"}
  /\ NoTimerDue
  /\ pending' = pending (-) SetToBag({p})
  /\ Commit(leaveRoomResumed(Cur, p, ok, okSave))
  /\ NoRequest
  /\ UNCHANGED <<status, dbConnected>>

LeaveRoomResume(p) ==
  \E ok \in Outcomes, okSave \in Outcomes : LeaveRoomResumeWith(p, ok, okSave)

\* socket.on('disconnect'); socket.io has taken the socket out of all its
\* rooms before the handler runs
Disconnect(c) ==
  /\ CanSend(c)
  /\ status' = [status EXCEPT ![c] = "disconnected"]
  /\ LET st0 == [Cur EXCEPT !.connected = @ \ {c},
                             !.sioRooms = [r \in RoomKeys |-> @[r] \ {c}]]
     IN /\ Commit(leaveHandler(st0, c))
        /\ IF leaveHandlerWaits(st0, c)
           THEN Suspend(Suspended(c, "leave", NoRoom, NoUserId))
           ELSE UNCHANGED pending
  /\ NoRequest
  /\ UNCHANGED dbConnected

\* faulty variant of Relay: the broadcast goes to the whole room, sender included
Relay_ToWholeRoom(st, socket, event, data) ==
  IF ~Has(st.userSessions, socket) THEN st
  ELSE LET session == st.userSessions[socket]
       IN Emit(st, event, socket, session.roomId,
               IoTo(st, session.roomId),
               [data |-> data, userId |-> session.userId,
                socketId |-> socket, timestamp |-> DateNow])

\* faulty variant of Relay: without a session the event goes to every other socket
Relay_OrphanBroadcast(st, socket, event, data) ==
  IF ~Has(st.userSessions, socket)
  THEN Emit(st, event, socket, NoRoom, st.connected \ {socket},
            [data |-> data, userId |-> NoUserId,
             socketId |-> socket, timestamp |-> DateNow])
  ELSE LET session == st.userSessions[socket]
       IN Emit(st, event, socket, session.roomId,
               SocketTo(st, socket, session.roomId),
               [data |-> data, userId |-> session.userId,
                socketId |-> socket, timestamp |-> DateNow])

\* cursor-move, draw-start and draw-move handlers: relay to the others
Relay(st, socket, event, data) ==
  IF ~Has(st.userSessions, socket) THEN st
  ELSE LET session == st.userSessions[socket]
       IN Emit(st, event, socket, session.roomId,
               SocketTo(st, socket, session.roomId),
               [data |-> data, userId |-> session.userId,
                socketId |-> socket, timestamp |-> DateNow])

\* socket.on('cursor-move')
CursorMove(c) ==
  /\ CanSend(c)
  /\ Commit(Relay(Cur, c, "cursor-update", "xy"))
  /\ NoRequest
  /\ UNCHANGED <<status, pending, dbConnected>>

\* socket.on('draw-start')
DrawStart(c) ==
  /\ CanSend(c)
  /\ Commit(Relay(Cur, c, "draw-start", "start"))
  /\ NoRequest
  /\ UNCHANGED <<status, pending, dbConnected>>

\* socket.on('draw-move')
DrawMove(c) ==
  /\ CanSend(c)
  /\ Commit(Relay(Cur, c, "draw-move", "move"))
  /\ NoRequest
  /\ UNCHANGED <<status, pending, dbConnected>>

\* faulty variant of drawEnd: a stroke for a room without a log entry is
\* broadcast but not recorded
drawEnd_DropsWithoutLog(st, socket, path) ==
  IF ~Has(st.userSessions, socket) THEN st
  ELSE LET session == st.userSessions[socket]
           drawData == strokeOf(path, session, socket)
           st1 == IF Has(st.roomDrawings, session.roomId)
                  THEN [st EXCEPT !.roomDrawings =
                          MapSet(@, session.roomId,
                                 Append(@[session.roomId], drawData))]
                  ELSE st
       IN Emit(st1, "draw-end", socket, session.roomId,
               SocketTo(st1, socket, session.roomId), drawData)

\* draw-end handler, lines 185-203
drawEnd(st, socket, path) ==
  IF ~Has(st.userSessions, socket) THEN st
  ELSE LET session == st.userSessions[socket]
           drawData == strokeOf(path, session, socket)
           log == IF Has(st.roomDrawings, session.roomId)
                  THEN st.roomDrawings[session.roomId] ELSE <<>>
           st1 == [st EXCEPT !.roomDrawings =
                     MapSet(@, session.roomId, Append(log, drawData))]
       IN Emit(st1, "draw-end", socket, session.roomId,
               SocketTo(st1, socket, session.roomId), drawData)

\* the number of commands in all logs of a map together
RECURSIVE StoredIn(_, _)
StoredIn(m, S) ==
  IF S = {} THEN 0
  ELSE LET k == CHOOSE x \in S : TRUE IN Len(m[k]) + StoredIn(m, S \ {k})

Stored(m) == StoredIn(m, DOMAIN m)

\* socket.on('draw-end'); ok is the outcome of the database call
DrawEndWith(c, path, ok) ==
  /\ CanSend(c)
  /\ LET st == drawEndSave(drawEnd(Cur, c, path), c, path, ok)
     IN /\ Stored(st.roomDrawings) <= MaxLog
        /\ Stored(st.db) <= MaxLog
        /\ Commit(st)
  /\ NoRequest
  /\ UNCHANGED <<status, pending, dbConnected>>

DrawEnd(c, path) == \E ok \in Outcomes : DrawEndWith(c, path, ok)

\* faulty variant of clearCanvas: a log that exists is left as it is
clearCanvas_KeepsLog(st, socket) ==
  IF ~Has(st.userSessions, socket) THEN st
  ELSE LET session == st.userSessions[socket]
           st1 == IF Has(st.roomDrawings, session.roomId) THEN st
                  ELSE [st EXCEPT !.roomDrawings =
                          MapSet(@, session.roomId, <<>>)]
       IN Emit(st1, "clear-canvas", socket, session.roomId,
               IoTo(st1, session.roomId),
               [userId |-> session.userId, timestamp |-> DateNow])

\* faulty variant of clearCanvas: the notice goes to the others, not to the sender
clearCanvas_NotToSender(st, socket) ==
  IF ~Has(st.userSessions, socket) THEN st
  ELSE LET session == st.userSessions[socket]
           st1 == [st EXCEPT !.roomDrawings = MapSet(@, session.roomId, <<>>)]
       IN Emit(st1, "clear-canvas", socket, session.roomId,
               SocketTo(st1, socket, session.roomId),
               [userId |-> session.userId, timestamp |-> DateNow])

\* clear-canvas handler, lines 226-236
clearCanvas(st, socket) ==
  IF ~Has(st.userSessions, socket) THEN st
  ELSE LET session == st.userSessions[socket]
           st1 == [st EXCEPT !.roomDrawings = MapSet(@, session.roomId, <<>>)]
       IN Emit(st1, "clear-canvas", socket, session.roomId,
               IoTo(st1, session.roomId),
               [userId |-> session.userId, timestamp |-> DateNow])

\* socket.on('clear-canvas'); ok is the outcome of the database call
ClearCanvasWith(c, ok) ==
  /\ CanSend(c)
  /\ Commit(clearCanvasSave(clearCanvas(Cur, c), c, ok))
  /\ NoRequest
  /\ UNCHANGED <<status, pending, dbConnected>>

ClearCanvas(c) == \E ok \in Outcomes : ClearCanvasWith(c, ok)

\* faulty variant of evict: the log is discarded without a look at the
\* membership at the time the timer fires
evict_Unconditional(st, roomId) ==
  [st EXCEPT !.roomDrawings = MapDelete(@, roomId)]

\* the setTimeout callback of leaveRoom, lines 289-294
evict(st, roomId) ==
  IF ~Has(st.rooms, roomId)
  THEN [st EXCEPT !.roomDrawings = MapDelete(@, roomId)]
  ELSE st

\* a timer whose delay has elapsed fires
TimerFire(t) ==
  /\ BagIn(t, timers)
  /\ t.left <= 0
  /\ Commit([evict(Cur, t.roomId) EXCEPT !.timers = @ (-) SetToBag({t})])
  /\ fired' = t.roomId
  /\ response' = NoResponse
  /\ UNCHANGED <<status, pending, dbConnected, roomIdIn, roomIdOut, dbTracked,
                 collection, timerCap, dbFaulty>>

\* the timers after TickMs milliseconds
Elapse(b) ==
  LET after(t) == [t EXCEPT !.left = @ - TickMs]
      S == {after(t) : t \in BagToSet(b)}
  IN [u \in S |-> BagCardinality(
        [t \in {x \in BagToSet(b) : after(x) = u} |-> b[t]])]

\* TickMs milliseconds pass (time is kept as the delay left of each pending
\* timer); a timer that is due fires before more time passes
Tick ==
  /\ timers # EmptyBag
  /\ NoTimerDue
  /\ timers' = Elapse(timers)
  /\ emitted' = <<>>
  /\ NoRequest
  /\ UNCHANGED <<status, rooms, userSessions, roomDrawings, sioRooms,
                 pending, dbConnected, db>>

Next ==
  \/ \E c \in Conns : Connect(c)
  \/ ConnectDB
  \/ \E c \in Conns, r \in RawRoomIds, u \in UserIds : JoinRoom(c, r, u)
  \/ \E c \in Conns : LeaveRoom(c)
  \/ \E p \in BagToSet(pending) : LeaveRoomResume(p)
  \/ \E c \in Conns : Disconnect(c)
  \/ \E c \in Conns : CursorMove(c)
  \/ \E c \in Conns : DrawStart(c)
  \/ \E c \in Conns : DrawMove(c)
  \/ \E c \in Conns, p \in Paths : DrawEnd(c, p)
  \/ \E c \in Conns : ClearCanvas(c)
  \/ \E t \in BagToSet(timers) : TimerFire(t)
  \/ Tick

Spec == Init /\ [][Next]_vars

\* ------------------------------------------------------------ properties
\* the member set of room r (empty when the room has no entry)
Members(r) == IF Has(rooms, r) THEN rooms[r] ELSE {}

\* the rooms whose member set holds socket c
RoomsOf(c) == {r \in DOMAIN rooms : c \in rooms[r]}

\* the log of room r (empty when the room has no entry)
LogOf(r) == IF Has(roomDrawings, r) THEN roomDrawings[r] ELSE <<>>

\* room r is within its grace window: no members, log kept, eviction pending
InGrace(r) ==
  /\ ~Has(rooms, r)
  /\ Has(roomDrawings, r)
  /\ \E t \in BagToSet(timers) : t.roomId = r /\ t.left > 0

\* C1: after any sequence of join-room, leave-room and disconnect events,
\* also ones that arrive while a leave or join of the same connection waits
\* on the database, every connection is in the member set of at most one
\* room and has at most one session.
C1_OneRoomPerConnection ==
  \A c \in Conns :
    /\ Cardinality(RoomsOf(c)) <= 1
    /\ Cardinality({x \in DOMAIN userSessions : x = c}) <= 1

\* C2: a join-room to a room that is within its grace window (its last
\* member left, its log holds N >= 1 strokes, the eviction has not fired)
\* delivers a snapshot with those N strokes; a join-room to a room whose log
\* was evicted delivers an empty snapshot.
C2_RejoinWithinGrace ==
  [][\A i \in DOMAIN emitted' :
       LET e == emitted'[i]
       IN e.event = "drawing-data" =>
            /\ (InGrace(e.room) /\ Len(roomDrawings[e.room]) >= 1)
                 => e.data.drawingData = roomDrawings[e.room]
            /\ ~Has(roomDrawings, e.room) => e.data.drawingData = <<>>]_vars

\* C3: a join-room to room R processed after N draw-end events were recorded
\* in R delivers a snapshot of exactly those N strokes in the order of their
\* draw-end events: draw-end appends its stroke at the end of R's log, and
\* the snapshot is R's log as it was when the join-room arrived.
C3_SnapshotIsLog ==
  [][/\ \A i \in DOMAIN emitted' :
          LET e == emitted'[i]
          IN /\ e.event = "drawing-data" => e.data.drawingData = LogOf(e.room)
             /\ e.event = "draw-end" =>
                  roomDrawings'[e.room] = Append(LogOf(e.room), e.data)]_vars

\* the set of emits of the last step
Emits == {emitted[i] : i \in DOMAIN emitted}

\* the snapshot a join-room for room r from a socket d without a session
\* would deliver now
SnapshotFor(d, r) ==
  joinRoomBody(Cur, d, r, <<"alice">>).emitted[1].data.drawingData

\* every socket without a session that joins room r now gets an empty snapshot
EmptySnapshotsIn(r) ==
  \A d \in Connected : ~Has(userSessions, d) => SnapshotFor(d, r) = <<>>

\* C4: a clear-canvas that is processed for room R (its sender has a session
\* in R) leaves R's log empty and every member set and session as it was,
\* and a join-room to R from a connection without a session handled next
\* delivers an empty snapshot.
C4_ClearEmptiesLog ==
  [][\A i \in DOMAIN emitted' :
       LET e == emitted'[i]
       IN e.event = "clear-canvas" =>
            /\ roomDrawings'[e.room] = <<>>
            /\ rooms' = rooms
            /\ userSessions' = userSessions
            /\ sioRooms' = sioRooms
            /\ \A r \in RoomKeys : e.room = r => EmptySnapshotsIn(r)']_vars

\* C4 witness: a clear-canvas from a member of its room was processed, the
\* room's log is empty, and a connected socket without a session can join.
C4_Witness ==
  \E e \in Emits :
    /\ e.event = "clear-canvas"
    /\ e.socket \in Members(e.room)
    /\ LogOf(e.room) = <<>>
    /\ \E d \in Connected : ~Has(userSessions, d)

\* the sockets that a draw-end of socket b, handled now, is delivered to
DrawEndAudience(b) ==
  LET st == drawEnd(Cur, b, StrokeData)
  IN IF st.emitted = <<>> THEN {} ELSE st.emitted[1].to

\* C5: the draw-end broadcast of sender B in room R reaches exactly the
\* connected sockets that are in R's member set at that moment, B excepted,
\* and once a leave-room or disconnect of a connection was received, a
\* draw-end handled next is not delivered to that connection.
C5_DrawEndToOtherMembers ==
  /\ [](\A e \in Emits :
          e.event = "draw-end" =>
            e.to = (e.members \cap Connected) \ {e.socket})
  /\ [][\A c \in Conns :
          (LeaveRoom(c) \/ Disconnect(c)) =>
            \A b \in Conns : c \notin DrawEndAudience(b)']_vars

\* C6: the clear-canvas notice of a sender in R's member set reaches every
\* connected socket of R's member set, the sender included.
C6_ClearToAllMembers ==
  \A e \in Emits :
    (e.event = "clear-canvas" /\ e.socket \in e.members) =>
      /\ e.to = e.members \cap Connected
      /\ e.socket \in e.to

\* C6 witness: a clear-canvas notice reached the sender and another member.
C6_Witness ==
  \E e \in Emits :
    e.event = "clear-canvas" /\ e.socket \in e.to /\ Cardinality(e.to) >= 2

RelayEvents == {"cursor-update", "draw-start", "draw-move"}

\* C7: a step that relays a cursor-move, draw-start or draw-move changes no
\* log, member set or session, and the broadcast reaches the connected
\* members of the sender's room other than the sender and nobody else.
C7_RelayFrame ==
  [][\A i \in DOMAIN emitted' :
       LET e == emitted'[i]
       IN e.event \in RelayEvents =>
            /\ UNCHANGED <<rooms, userSessions, roomDrawings, sioRooms, timers,
                           pending, status>>
            /\ e.room = userSessions[e.socket].roomId
            /\ e.to = (Members(e.room) \cap Connected) \ {e.socket}
            /\ Len(emitted') = 1]_vars

\* C7 witness: a relayed event reached another member of the sender's room
\* while a room has a log.
C7_Witness ==
  \E e \in Emits :
    /\ e.event \in RelayEvents
    /\ e.to # {}
    /\ \E r \in DOMAIN roomDrawings : roomDrawings[r] # <<>>

\* the relay state other than the emits: maps, socket.io rooms, timers,
\* suspended calls
RelayVars == <<rooms, userSessions, roomDrawings, sioRooms, timers, pending>>

\* socket c delivers a cursor-move, draw-start, draw-move, draw-end or
\* clear-canvas
DrawingEvent(c) ==
  \/ CursorMove(c)
  \/ DrawStart(c)
  \/ DrawMove(c)
  \/ \E p \in Paths : DrawEnd(c, p)
  \/ ClearCanvas(c)

\* C8: a cursor-move, draw-start, draw-move, draw-end or clear-canvas of a
\* connection without a session changes no log, member set or session and
\* emits nothing.
C8_OrphanEventDropped ==
  [][\A c \in Conns :
       (~Has(userSessions, c) /\ DrawingEvent(c)) =>
         (UNCHANGED RelayVars /\ UNCHANGED status /\ emitted' = <<>>)]_vars

\* C8 witness: nothing was emitted in the last step while a connected socket
\* has no session and a room with a member holds a stroke (so a relayed or
\* recorded orphan event would show).
C8_Witness ==
  /\ emitted = <<>>
  /\ \E c \in Connected : ~Has(userSessions, c)
  /\ \E r \in DOMAIN rooms : (rooms[r] \cap Connected) # {} /\ LogOf(r) # <<>>

\* what two leaves must agree on: sessions, member sets (with their counts),
\* logs, socket.io rooms and scheduled evictions
LeaveCore(st) ==
  <<st.rooms, st.userSessions, st.roomDrawings, st.sioRooms, st.timers,
    [r \in DOMAIN st.rooms |-> Cardinality(st.rooms[r])]>>

\* a second leave-room of c right after the first changes nothing more
SecondLeaveSame(c) ==
  LET st1 == leaveHandler(Cur, c)
      st2 == leaveHandler([st1 EXCEPT !.emitted = <<>>], c)
  IN LeaveCore(st2) = LeaveCore(st1)

\* C9: a leave-room or disconnect of a connection without a session changes
\* no session, member set, log or timer and emits nothing, and two
\* consecutive leave-room events of a connection leave the same sessions,
\* member sets, logs and member counts as one.
C9_LeaveIdempotent ==
  /\ [](\A c \in Conns : SecondLeaveSame(c))
  /\ [][\A c \in Conns :
          (~Has(userSessions, c) /\ (LeaveRoom(c) \/ Disconnect(c))) =>
            /\ UNCHANGED <<rooms, userSessions, roomDrawings, timers, pending>>
            /\ emitted' = <<>>]_vars

\* C9 witness: a leave has told a remaining member the new count, and the
\* leaver is still connected and still has its session (the leave waits on
\* the database), so a second leave-room of it is handled in full.
C9_Witness ==
  \E e \in Emits :
    /\ e.event = "user-count-update"
    /\ e.socket \notin e.members
    /\ e.to # {}
    /\ e.socket \in Connected
    /\ Has(userSessions, e.socket)

\* C10: every user-count-update and room-joined carries the size of the
\* room's member set at the moment it is emitted; the member set counted on
\* a join holds the joiner, the one counted on a leave does not hold the
\* leaver.
C10_CountIsMemberSetSize ==
  \A i \in DOMAIN emitted :
    LET e == emitted[i]
        onJoin == i > 1 /\ emitted[i - 1].event = "room-joined"
    IN /\ e.event = "room-joined" =>
            /\ e.data.userCount = Cardinality(e.members)
            /\ e.socket \in e.members
       /\ e.event = "user-count-update" =>
            /\ e.data.count = Cardinality(e.members)
            /\ e.socket \in e.members <=> onJoin

\* C10 witness: a second joiner was told a count of 2, or a leave told the
\* remaining member a count of 1.
C10_Witness ==
  /\ \E e \in Emits : e.event = "room-joined" /\ e.data.userCount = 2
  /\ rooms # EmptyMap

\* the result of a leave-room of socket c handled now, and whether its
\* leaveRoom call is left waiting on the database
AfterLeaveRoom(c) == leaveHandler(Cur, c)

\* C11: a disconnect of connection c leaves the sessions, member sets, logs
\* and scheduled evictions, and sends the events to the recipients, that a
\* leave-room of c handled in the same state does; it also leaves the same
\* leaveRoom call waiting on the database.
C11_DisconnectIsLeaveRoom ==
  [][\A c \in Conns :
       Disconnect(c) =>
         /\ userSessions' = AfterLeaveRoom(c).userSessions
         /\ rooms' = AfterLeaveRoom(c).rooms
         /\ roomDrawings' = AfterLeaveRoom(c).roomDrawings
         /\ timers' = AfterLeaveRoom(c).timers
         /\ emitted' = AfterLeaveRoom(c).emitted
         /\ (pending' # pending) <=> leaveHandlerWaits(Cur, c)]_vars

\* C11 witness: a socket that has just disconnected was a member with a
\* session, and another member was told the new count.
C11_Witness ==
  \E e \in Emits :
    /\ e.event = "user-count-update"
    /\ status[e.socket] = "disconnected"
    /\ e.to # {}

\* the connected members of room r
LiveMembers(r) == Members(r) \cap Connected

\* C12: when a connection with a session in room R, a member of R, leaves by
\* leave-room or by disconnect, every remaining member of R is sent the new
\* member count, and when members remain they are sent a departure notice
\* (user-left) that carries the leaver's user id.
C12_LeaveNotifiesMembers ==
  [][\A c \in Conns :
       (/\ Has(userSessions, c)
        /\ c \in Members(userSessions[c].roomId)
        /\ (LeaveRoom(c) \/ Disconnect(c))) =>
         \A r \in {userSessions[c].roomId} :
            /\ \E i \in DOMAIN emitted' :
                 /\ emitted'[i].event = "user-count-update"
                 /\ emitted'[i].to = LiveMembers(r)' \ {c}
            /\ (LiveMembers(r)' \ {c}) # {} =>
                 \E i \in DOMAIN emitted' :
                   /\ emitted'[i].event = "user-left"
                   /\ emitted'[i].data.userId = userSessions[c].userId
                   /\ emitted'[i].to = LiveMembers(r)' \ {c}]_vars

\* ids a and b differ at most in letter case and in surrounding whitespace
SameModuloCaseAndSpace(a, b) ==
  LET a0 == trim(a)
      b0 == trim(b)
  IN /\ Len(a0) = Len(b0)
     /\ \A i \in 1..Len(a0) : UpperChar(a0[i]) = UpperChar(b0[i])

\* C15: a join-room whose id differs from the key K of an existing room only
\* in letter case or surrounding whitespace puts the joiner into room K: it
\* becomes a member of K, is told the count of K with itself added (2 when
\* K had one member), and its snapshot is the log K holds.
C15_VariantIdsJoinSameRoom ==
  [][\A c \in Conns, K \in DOMAIN rooms, roomId \in RawRoomIds, u \in UserIds :
         (/\ ~Has(userSessions, c)
          /\ c \notin rooms[K]
          /\ SameModuloCaseAndSpace(roomId, K)
          /\ JoinRoom(c, roomId, u)) =>
           /\ Has(rooms', K) /\ rooms'[K] = rooms[K] \cup {c}
           /\ \E i \in DOMAIN emitted' :
                /\ emitted'[i].event = "drawing-data"
                /\ emitted'[i].to = {c}
                /\ emitted'[i].data.drawingData = LogOf(K)
           /\ \E i \in DOMAIN emitted' :
                /\ emitted'[i].event = "room-joined"
                /\ emitted'[i].data.roomId = K
                /\ emitted'[i].data.userCount = Cardinality(rooms[K]) + 1
                /\ c \in emitted'[i].to]_vars

\* C15 witness: a second joiner was told the count is 2 and received a log
\* of one stroke or more.
C15_Witness ==
  /\ \E e \in Emits : e.event = "room-joined" /\ e.data.userCount = 2
  /\ \E e \in Emits : e.event = "drawing-data" /\ e.data.drawingData # <<>>

\* ------------------------------------------------- room id normalization
\* the characters of the ids that normalization is applied to
IdChars == {"a", "A", "b", "1", " ", "\t"}

RoomIdInputs == UNION {[1..n -> IdChars] : n \in 0..MaxIdLen}

NormInit ==
  /\ Started
  /\ dbTracked = FALSE
  /\ roomIdIn \in RoomIdInputs
  /\ Defaults

\* roomId.toUpperCase().trim() applied to the id, then to its own result
Normalize ==
  /\ Len(roomIdOut) < MaxApply
  /\ roomIdOut' = Append(roomIdOut,
                         normalizedRoomId(IF roomIdOut = <<>> THEN roomIdIn
                                          ELSE roomIdOut[Len(roomIdOut)]))
  /\ UNCHANGED <<status, rooms, userSessions, roomDrawings, sioRooms, timers,
                 pending, dbConnected, emitted, db, dbTracked, response,
                 roomIdIn, collection, timerCap, fired, dbFaulty>>

NormNext == Normalize

NormSpec == NormInit /\ [][NormNext]_vars

\* a letter in the other case
SwapCase(ch) ==
  IF \E i \in 1..Len(Lower) : Lower[i] = ch
  THEN Upper[CHOOSE i \in 1..Len(Lower) : Lower[i] = ch]
  ELSE IF \E i \in 1..Len(Upper) : Upper[i] = ch
  THEN Lower[CHOOSE i \in 1..Len(Upper) : Upper[i] = ch]
  ELSE ch

\* the ids one change away from x: one letter in the other case, or one
\* whitespace character more or less at either end
Variants(x) ==
  {[x EXCEPT ![i] = SwapCase(x[i])] : i \in 1..Len(x)}
    \cup {<<w>> \o x : w \in {" ", "\t", "\n"}}
    \cup {x \o <<w>> : w \in {" ", "\t", "\n"}}
    \cup (IF x # <<>> /\ x[1] \in {" ", "\t", "\n"} THEN {Tail(x)} ELSE {})
    \cup (IF x # <<>> /\ x[Len(x)] \in {" ", "\t", "\n"}
          THEN {SubSeq(x, 1, Len(x) - 1)} ELSE {})

\* C17: normalizing the normalized id gives the normalized id, and an id
\* that differs from x in the case of a letter or in a whitespace character
\* at either end normalizes to what x normalizes to (by induction, so do
\* all ids that differ from x only in letter case and surrounding
\* whitespace).
C17_NormalizeIdempotent ==
  /\ \A i \in 1..Len(roomIdOut) : roomIdOut[i] = roomIdOut[1]
  /\ Len(roomIdOut) >= 1 =>
       \A y \in Variants(roomIdIn) : normalizedRoomId(y) = roomIdOut[1]

\* C17 witness: an id with a lower-case letter and surrounding whitespace
\* was normalized twice.
C17_Witness ==
  /\ Len(roomIdOut) = 2
  /\ Len(roomIdIn) = 3
  /\ roomIdIn[1] = " " /\ roomIdIn[2] = "a" /\ roomIdIn[3] = "\t"
  /\ roomIdOut[2] = <<"A">>

\* ------------------------------------------------------------ HTTP API
ApiConns == 1..MaxApiConns

ApiInit == Started /\ dbTracked = TRUE /\ roomIdIn = <<>> /\ Defaults

\* res.status(400).json({ error })
BadRequest(error) == [status |-> 400, error |-> error]

\* faulty variant of joinResponse: the message tells a room without members
\* from one with members
joinResponse_MessageByMembers(st, roomId, drawingData, loaded) ==
  [status |-> 200, route |-> "POST /api/rooms/join", success |-> TRUE,
   roomId |-> roomId, drawingData |-> drawingData, loaded |-> loaded,
   activeUsers |-> Cardinality(MembersIn(st, roomId)),
   message |-> IF MembersIn(st, roomId) = {} THEN "New room created"
               ELSE "Joined existing room"]

\* POST /api/rooms/join, lines 371-379.  loaded tells whether drawingData
\* was read from the collection; it is recorded for the properties and is
\* not part of what is sent.
joinResponse(st, roomId, drawingData, loaded) ==
  [status |-> 200, route |-> "POST /api/rooms/join", success |-> TRUE,
   roomId |-> roomId, drawingData |-> drawingData, loaded |-> loaded,
   activeUsers |-> Cardinality(MembersIn(st, roomId)),
   message |-> IF Len(drawingData) = 0 THEN "New room created"
               ELSE "Joined existing room"]

\* A step of an HTTP handler: the relay state it ends with and its response.
Respond(st, res) ==
  /\ Commit(st)
  /\ response' = res
  /\ fired' = NoRoom
  /\ UNCHANGED <<status, dbConnected, dbTracked, roomIdIn, roomIdOut,
                 collection, timerCap, dbFaulty>>

\* POST /api/rooms/join, lines 333-379, up to the response or to the await
\* of Room.findOne.  The empty id stands for a missing one (both are falsy).
PostJoin(roomId) ==
  LET n == normalizedRoomId(roomId)
  IN /\ NoTimerDue
     /\ IF roomId = NoRoom
        THEN Respond(Cur, BadRequest("Room ID is required")) /\ UNCHANGED pending
        ELSE IF ~IsValidRoomId(n)
        THEN /\ Respond(Cur, BadRequest(
                  "Room ID must be 6-8 alphanumeric characters"))
             /\ UNCHANGED pending
        ELSE IF Has(roomDrawings, n)
        THEN Respond(Cur, joinResponse(Cur, n, roomDrawings[n], FALSE))
             /\ UNCHANGED pending
        ELSE IF dbConnected
        THEN /\ Respond(Cur, NoResponse)
             /\ Suspend(Suspended(0, "api", n, NoUserId))
        ELSE Respond(Cur, joinResponse(Cur, n, <<>>, FALSE))
             /\ UNCHANGED pending

\* faulty variant of postJoinLoad: the document found is not kept in memory
postJoinLoad_NoCache(st, roomId) == st

\* POST /api/rooms/join, lines 361-365: the document found is loaded into
\* the in-memory log
postJoinLoad(st, roomId) ==
  IF Has(st.db, roomId)
  THEN [st EXCEPT !.roomDrawings = MapSet(@, roomId, st.db[roomId])]
  ELSE st

\* Room.findOne of a suspended POST /api/rooms/join settles (lines 360-379);
\* it returns the document as it is at that moment
PostJoinResume(p) ==
  /\ BagIn(p, pending)
  /\ p.cont = "api"
  /\ NoTimerDue
  /\ pending' = pending (-) SetToBag({p})
  /\ LET st == postJoinLoad(Cur, p.roomId)
     IN Respond(st, joinResponse(st, p.roomId, dbLog(db, p.roomId),
                                 Has(db, p.roomId)))

\* GET /api/rooms/:roomId, lines 388-400
GetRoom(roomId) ==
  LET id == toUpperCase(roomId)
      activeUsers == Cardinality(MembersIn(Cur, id))
      drawingData == IF Has(roomDrawings, id) THEN roomDrawings[id] ELSE <<>>
  IN /\ NoTimerDue
     /\ Respond(Cur, [status |-> 200, route |-> "GET /api/rooms/:roomId",
                      success |-> TRUE, roomId |-> id,
                      activeUsers |-> activeUsers,
                      drawingCount |-> Len(drawingData),
                      exists |-> activeUsers > 0 \/ Len(drawingData) > 0])
     /\ UNCHANGED pending

\* The process ends on the unhandled rejection and is started again: the
\* in-memory state is gone, every socket is dropped, the collection stays.
processExit ==
  /\ status' = [c \in Conns |->
                  IF status[c] = "connected" THEN "disconnected" ELSE status[c]]
  /\ rooms' = EmptyMap
  /\ userSessions' = EmptyMap
  /\ roomDrawings' = EmptyMap
  /\ sioRooms' = [r \in RoomKeys |-> {}]
  /\ timers' = EmptyBag
  /\ pending' = EmptyBag
  /\ dbConnected' = FALSE
  /\ emitted' = <<>>
  /\ UNCHANGED db
  /\ NoRequest

\* socket.on('join-room') with a payload that has no roomId (hasPayload), or
\* with no payload at all.  Without roomId, roomId.toUpperCase() throws
\* inside the try block (line 81) and the catch block reports it (lines
\* 133-136).  Without a payload the destructuring of the parameter throws
\* before the try block is entered (line 79): the promise of the handler is
\* rejected and nothing handles it, which the runtime either only warns
\* about or ends the process for.
JoinRoomFails(c, hasPayload) ==
  /\ CanSend(c)
  /\ IF hasPayload
     THEN /\ Commit(Emit(Cur, "error", c, NoRoom, {c},
                         [message |-> "Failed to join room"]))
          /\ NoRequest
          /\ UNCHANGED <<status, pending, dbConnected>>
     ELSE \/ /\ Commit(Cur)
             /\ NoRequest
             /\ UNCHANGED <<status, pending, dbConnected>>
          \/ processExit

ApiNext ==
  \/ \E c \in ApiConns : Connect(c)
  \/ ConnectDB
  \/ \E c \in ApiConns, r \in ApiRoomIds, u \in UserIds : JoinRoom(c, r, u)
  \/ \E c \in ApiConns, b \in BOOLEAN : JoinRoomFails(c, b)
  \/ \E c \in ApiConns : LeaveRoom(c)
  \/ \E p \in BagToSet(pending) : LeaveRoomResume(p)
  \/ \E c \in ApiConns : Disconnect(c)
  \/ \E c \in ApiConns, p \in Paths : DrawEnd(c, p)
  \/ \E c \in ApiConns : ClearCanvas(c)
  \/ \E t \in BagToSet(timers) : TimerFire(t)
  \/ Tick
  \/ \E r \in ApiRoomIds \cup {NoRoom} : PostJoin(r)
  \/ \E p \in BagToSet(pending) : PostJoinResume(p)
  \/ \E r \in ApiRoomIds : GetRoom(r)

ApiSpec == ApiInit /\ [][ApiNext]_vars

\* the relay state and the collection: member sets, sessions, logs,
\* socket.io rooms, timers, suspended calls, documents
StoredState ==
  <<rooms, userSessions, roomDrawings, sioRooms, timers, pending, db>>

\* an id of 6 to 8 characters, each an upper-case letter or a digit
MatchesIdPattern(s) ==
  /\ Len(s) \in 6..8
  /\ \A i \in 1..Len(s) : s[i] \in AlnumUpper

\* C13: a join-or-create request whose id, uppercased and trimmed, does not
\* match /^[A-Z0-9]{6,8}$/ is answered with status 400 and an error, and
\* leaves every member set, log, session and document as it was.
C13_InvalidIdRejected ==
  [][\A roomId \in ApiRoomIds \cup {NoRoom} :
       (~MatchesIdPattern(normalizedRoomId(roomId)) /\ PostJoin(roomId)) =>
         /\ response'.status = 400
         /\ response'.error \in {"Room ID is required",
                                 "Room ID must be 6-8 alphanumeric characters"}
         /\ UNCHANGED StoredState
         /\ emitted' = <<>>]_vars

\* C13 witness: a request was answered with the validation error while a
\* room with a member, a log and a document exists.
C13_Witness ==
  /\ response.status = 400
  /\ response.error = "Room ID must be 6-8 alphanumeric characters"
  /\ \E r \in DOMAIN rooms : rooms[r] # {} /\ LogOf(r) # <<>>
  /\ \E r \in DOMAIN db : db[r] # <<>>

\* C14: every key of the member-set map and of the log map matches
\* /^[A-Z0-9]{6,8}$/.
C14_OnlyValidIdsInRelay ==
  \A k \in (DOMAIN rooms) \cup (DOMAIN roomDrawings) : MatchesIdPattern(k)

\* C16: every key of the member-set map, of the log map and of the
\* sessions' room field is in normalized form, and a GET /api/rooms/:roomId
\* with id x answers for the room that the normalized x names: its member
\* count and the length of its log.
C16_LookupsNormalize ==
  /\ [](/\ \A k \in (DOMAIN rooms) \cup (DOMAIN roomDrawings) :
             normalizedRoomId(k) = k
        /\ \A c \in DOMAIN userSessions :
             normalizedRoomId(userSessions[c].roomId) = userSessions[c].roomId)
  /\ [][\A roomId \in ApiRoomIds :
          GetRoom(roomId) =>
            /\ response'.roomId = normalizedRoomId(roomId)
            /\ response'.activeUsers =
                 Cardinality(Members(normalizedRoomId(roomId)))
            /\ response'.drawingCount = Len(LogOf(normalizedRoomId(roomId)))]_vars

\* a join-or-create request for the valid id roomId is answered in this
\* step: at once, or when Room.findOne settles
JoinAnswered(roomId) ==
  \/ /\ PostJoin(roomId)
     /\ response' # NoResponse
  \/ \E p \in BagToSet(pending) :
       /\ p.roomId = normalizedRoomId(roomId)
       /\ PostJoinResume(p)

C20_PersistedLogRestored ==
  [][\A i \in DOMAIN emitted' :
       LET e == emitted'[i]
       IN (/\ e.event = "drawing-data"
           /\ response.status = 200
           /\ response.route = "POST /api/rooms/join"
           /\ response.roomId = e.room
           /\ response.loaded
           /\ response.drawingData # <<>>
           /\ ~Has(rooms, e.room)) =>
            e.data.drawingData = response.drawingData]_vars

\* ------------------------------------------------------ in-memory mode
\* The server without MONGODB_URI (lines 49-50): the database never
\* connects, so no handler waits on it.
MemNext ==
  \/ \E c \in Conns : Connect(c)
  \/ \E c \in Conns, r \in RawRoomIds, u \in UserIds : JoinRoom(c, r, u)
  \/ \E c \in Conns, b \in BOOLEAN : JoinRoomFails(c, b)
  \/ \E c \in Conns : LeaveRoom(c)
  \/ \E c \in Conns : Disconnect(c)
  \/ \E c \in Conns, p \in Paths : DrawEnd(c, p)
  \/ \E c \in Conns : ClearCanvas(c)
  \/ \E t \in BagToSet(timers) : TimerFire(t)
  \/ Tick

MemSpec == Init /\ [][MemNext]_vars

\* C19: a join-room whose processing fails with an internal error sends one
\* error event, to the requesting connection only, and changes no session,
\* member set or log and drops no other connection.
C19_JoinFailureReported ==
  [][\A c \in Conns, hasPayload \in BOOLEAN :
       JoinRoomFails(c, hasPayload) =>
         /\ Len(emitted') = 1
         /\ emitted'[1].event = "error"
         /\ emitted'[1].to = {c}
         /\ UNCHANGED <<rooms, userSessions, roomDrawings, sioRooms>>
         /\ \A d \in Conns \ {c} : status'[d] = status[d]]_vars

\* ------------------------------------------------- more relay properties
\* C21: a join-room of a connection for the room it is a member of leaves
\* the connection a member of that room and the room's log and member count
\* as they were, also when the connection is the room's only member.  When
\* the leave inside the handler waits on the database, the handler's second
\* half adds the connection again and keeps the log.
C21_RejoinIdempotent ==
  [][/\ \A c \in Conns, roomId \in RawRoomIds, u \in UserIds :
          (/\ Has(userSessions, c)
           /\ userSessions[c].roomId = normalizedRoomId(roomId)
           /\ c \in Members(normalizedRoomId(roomId))
           /\ JoinRoom(c, roomId, u)
           /\ pending' = pending) =>
            \A n \in {normalizedRoomId(roomId)} :
              /\ Has(rooms', n) /\ c \in rooms'[n]
              /\ Cardinality(rooms'[n]) = Cardinality(rooms[n])
              /\ Has(roomDrawings', n)
              /\ roomDrawings'[n] = LogOf(n)
     /\ \A p \in BagToSet(pending) :
          (/\ p.cont = "join"
           /\ Has(userSessions, p.socket)
           /\ userSessions[p.socket].roomId = p.roomId
           /\ LeaveRoomResume(p)) =>
            /\ Has(rooms', p.roomId) /\ p.socket \in rooms'[p.roomId]
            /\ Has(roomDrawings', p.roomId)
            /\ roomDrawings'[p.roomId] = LogOf(p.roomId)]_vars

\* the events that go to a room (drawing-data and error go to one socket)
RoomBroadcasts ==
  {"room-joined", "user-count-update", "cursor-update", "draw-start",
   "draw-move", "draw-end", "clear-canvas"}

\* C22: within one room the broadcasts reach a connection in the order in
\* which the server received the events that trigger them.  A join-room whose
\* handler waits on the database was received before every event of another
\* connection that is handled during the wait, so no connection that gets
\* the broadcasts of the join has just been sent, for the same room, the
\* broadcast of such a later event.
C22_BroadcastsInArrivalOrder ==
  [][\A p \in BagToSet(pending) :
       (p.cont = "join" /\ LeaveRoomResume(p)) =>
         \A i \in DOMAIN emitted, j \in DOMAIN emitted' :
           (/\ emitted[i].socket # p.socket
            /\ emitted[i].event \in RoomBroadcasts
            /\ emitted'[j].event \in RoomBroadcasts
            /\ emitted[i].room = emitted'[j].room) =>
             emitted[i].to \cap emitted'[j].to = {}]_vars

\* C23: every payload that is broadcast to a room carries the user id and
\* the connection id of the connection whose event caused it, and a server
\* timestamp.
C23_PayloadCarriesOrigin ==
  \A e \in Emits :
    e.event \in RoomBroadcasts =>
      /\ {"userId", "socketId", "timestamp"} \subseteq DOMAIN e.data
      /\ e.data.socketId = e.socket
      /\ e.data.timestamp = DateNow

\* ------------------------------------- join-or-create of routes/rooms.js
\* The router variant of the HTTP API keeps every room as a document of the
\* Room collection (models/Room.js).  Only its POST /join is followed here;
\* no request of this specification deletes a document or changes the
\* drawingData of one.
MaxInFlight == 2   \* requests waiting on the database at the same time

RouterRoomIds == {RoomABC, RoomAbcRaw, RoomXYZ, RoomAB, NoRoom}

\* new Room({ roomId, drawingData: [], activeUsers: 0 })
NewRoom(roomId) ==
  [roomId |-> roomId, drawingData |-> <<>>, activeUsers |-> 0]

\* the documents of the collection with this roomId
DocsOf(coll, roomId) == {d \in BagToSet(coll) : d.roomId = roomId}

\* the number of documents of the collection with this roomId
DocCount(coll, roomId) ==
  BagCardinality([d \in DocsOf(coll, roomId) |-> coll[d]])

\* res.status(500).json({ error: 'Internal server error', ... })
ServerError == [status |-> 500, error |-> "Internal server error"]

\* res.json of router.post('/join'), lines 46-52
routerJoinResponse(room) ==
  [status |-> 200, route |-> "router POST /join", success |-> TRUE,
   roomId |-> room.roomId, drawingData |-> room.drawingData,
   activeUsers |-> room.activeUsers,
   message |-> IF Len(room.drawingData) = 0 THEN "New room created"
               ELSE "Joined existing room"]

\* a step of the router that touches none of the relay's state
RouterFrame ==
  /\ emitted' = <<>>
  /\ fired' = NoRoom
  /\ UNCHANGED <<status, rooms, userSessions, roomDrawings, sioRooms, timers,
                 dbConnected, db, dbTracked, roomIdIn, roomIdOut, timerCap,
                 dbFaulty>>

\* router.post('/join'), lines 8-28: validation, then the await of
\* Room.findOne
RouterPostJoin(roomId) ==
  LET n == normalizedRoomId(roomId)
  IN /\ IF roomId = NoRoom
        THEN /\ response' =
                  BadRequest("Room ID is required and must be a string")
             /\ UNCHANGED pending
        ELSE IF ~IsValidRoomId(n)
        THEN /\ response' =
                  BadRequest("Room ID must be 6-8 alphanumeric characters")
             /\ UNCHANGED pending
        ELSE /\ BagCardinality(pending) < MaxInFlight
             /\ pending' =
                  pending (+) SetToBag({Suspended(0, "findOne", n, NoUserId)})
             /\ response' = NoResponse
     /\ UNCHANGED collection
     /\ RouterFrame

\* Room.findOne settles (lines 28-44): the handler goes on to save a new
\* document when none was found, and the found one otherwise
RouterFindOneSettles(p) ==
  /\ BagIn(p, pending)
  /\ p.cont = "findOne"
  /\ pending' = (pending (-) SetToBag({p})) (+)
       SetToBag({Suspended(0,
                           IF DocsOf(collection, p.roomId) = {}
                           THEN "saveNew" ELSE "saveFound",
                           p.roomId, NoUserId)})
  /\ response' = NoResponse
  /\ UNCHANGED collection
  /\ RouterFrame

\* room.save() settles (lines 37 and 42, then 46-59).  The insert of a new
\* document is refused when the collection holds a document with the same
\* roomId (unique index, models/Room.js line 24); the rejection of save() is
\* caught at line 54.  The save of a found document updates lastActivity.
RouterSaveSettles(p) ==
  /\ BagIn(p, pending)
  /\ p.cont \in {"saveNew", "saveFound"}
  /\ pending' = pending (-) SetToBag({p})
  /\ IF p.cont = "saveNew"
     THEN IF DocsOf(collection, p.roomId) = {}
          THEN /\ collection' = collection (+) SetToBag({NewRoom(p.roomId)})
               /\ response' = routerJoinResponse(NewRoom(p.roomId))
          ELSE /\ UNCHANGED collection
               /\ response' = ServerError
     ELSE /\ UNCHANGED collection
          /\ response' = routerJoinResponse(
               CHOOSE d \in DocsOf(collection, p.roomId) : TRUE)
  /\ RouterFrame

RouterNext ==
  \/ \E r \in RouterRoomIds : RouterPostJoin(r)
  \/ \E p \in BagToSet(pending) : RouterFindOneSettles(p)
  \/ \E p \in BagToSet(pending) : RouterSaveSettles(p)

RouterSpec == Init /\ [][RouterNext]_vars

\* C24: every join-or-create request for a valid id is answered with
\* success, also when two requests for a room that does not exist yet are
\* in flight together, and once a request is answered the collection holds
\* exactly one document for its id.
C24_JoinOrCreateIdempotent ==
  [][\A p \in BagToSet(pending) :
       RouterSaveSettles(p) =>
         /\ response'.status = 200
         /\ response'.success
         /\ response'.roomId = p.roomId
         /\ DocCount(collection', p.roomId) = 1]_vars

\* C25: between handlers a room id has an entry in the member-set map or in
\* the log map exactly when the room has a member or a log that is not
\* empty, and no entry of the member-set map is the empty set.
C25_DirectoryEntryIffInUse ==
  /\ \A r \in RoomKeys :
       (Has(rooms, r) \/ Has(roomDrawings, r)) <=>
         (Members(r) # {} \/ LogOf(r) # <<>>)
  /\ \A r \in DOMAIN rooms : rooms[r] # {}

\* ---------------------------------------------------- the grace window
\* The in-memory server with more than one eviction pending: every leaveRoom
\* that empties a room schedules a timer of its own (lines 289-294) and none
\* is ever cancelled.
GraceInit ==
  /\ Started
  /\ dbTracked = FALSE
  /\ roomIdIn = <<>>
  /\ timerCap = MaxGraceTimers
  /\ dbFaulty = FALSE

GraceSpec == GraceInit /\ [][MemNext]_vars

\* the eviction timer t fires and discards the log of its room
Discards(t) ==
  /\ TimerFire(t)
  /\ Has(roomDrawings, t.roomId)
  /\ ~Has(roomDrawings', t.roomId)

\* C26: an eviction timer never discards the log of a room earlier than 5
\* minutes after the room's membership most recently reached zero.  Each
\* emptying schedules a timer of 5 minutes, so at a discard no timer of the
\* room may have part of its delay left.
C26_GraceWindowRespected ==
  [][\A t \in BagToSet(timers) :
       Discards(t) =>
         \A u \in BagToSet(timers') : u.roomId = t.roomId => u.left <= 0]_vars

\* C27: an eviction timer that fires while its room has a member discards
\* nothing: logs, member sets, sessions and socket.io rooms are the same
\* before and after the callback, and nothing is emitted.
C27_EvictionSparesLiveRoom ==
  [][\A t \in BagToSet(timers) :
       (TimerFire(t) /\ Members(t.roomId) # {}) =>
         /\ UNCHANGED <<rooms, userSessions, roomDrawings, sioRooms>>
         /\ emitted' = <<>>]_vars

\* C27 witness: the callback of a timer has just run for a room that has a
\* member and a log with a stroke.
C27_Witness ==
  /\ fired # NoRoom
  /\ Members(fired) # {}
  /\ LogOf(fired) # <<>>

\* C28: a relay handler makes all its changes to sessions, member sets and
\* logs, and sends all its events, before it first waits on a persistence
\* call: the part of a handler that runs after the wait changes none of
\* them and emits nothing.  (draw-end, clear-canvas and the save at the end
\* of join-room only log after their wait; the handlers that go on after a
\* wait are those that called leaveRoom.)
C28_NothingAfterPersistenceWait ==
  [][\A p \in BagToSet(pending) :
       LeaveRoomResume(p) =>
         /\ UNCHANGED <<rooms, userSessions, roomDrawings, sioRooms, timers>>
         /\ emitted' = <<>>]_vars

\* ------------------------------------------- failing database calls
\* The relay with a database whose calls may be rejected.
FailInit ==
  /\ Started
  /\ dbTracked = FALSE
  /\ roomIdIn = <<>>
  /\ timerCap = MaxTimers
  /\ dbFaulty = TRUE

FailNext ==
  \/ \E c \in Conns : Connect(c)
  \/ ConnectDB
  \/ \E c \in Conns, r \in RawRoomIds, u \in UserIds : JoinRoom(c, r, u)
  \/ \E c \in Conns : LeaveRoom(c)
  \/ \E p \in BagToSet(pending) : LeaveRoomResume(p)
  \/ \E c \in Conns : Disconnect(c)
  \/ \E c \in Conns, p \in Paths : DrawEnd(c, p)
  \/ \E c \in Conns : ClearCanvas(c)
  \/ \E t \in BagToSet(timers) : TimerFire(t)
  \/ Tick

FailSpec == FailInit /\ [][FailNext]_vars

\* the emits other than the lines written to the console
ClientEmits(seq) == SelectSeq(seq, LAMBDA e : e.event # "console.log")

\* the handler that ends in state a has the sessions, member sets, logs,
\* socket.io rooms and timers of b and has sent the events of b
EndsAs(a, b) ==
  /\ a.rooms = b.rooms
  /\ a.userSessions = b.userSessions
  /\ a.roomDrawings = b.roomDrawings
  /\ a.sioRooms = b.sioRooms
  /\ a.timers = b.timers
  /\ ClientEmits(a.emitted) = b.emitted
  /\ \A i \in DOMAIN a.emitted :
       a.emitted[i].event = "console.log" => a.emitted[i].to = {}

\* C29: when a database call of join-room, draw-end, clear-canvas or
\* leaveRoom is rejected, no client is sent an event because of it, and the
\* handler ends with the sessions, member sets, logs and broadcasts it ends
\* with when the call is carried out: in every state, for every event that
\* can be handled next.
C29_PersistenceFailureSwallowed ==
  /\ \A c \in Connected, r \in RawRoomIds, u \in UserIds :
       EndsAs(joinRoom(Cur, c, r, u, FALSE), joinRoom(Cur, c, r, u, TRUE))
  /\ \A c \in Connected, path \in Paths :
       EndsAs(drawEndSave(drawEnd(Cur, c, path), c, path, FALSE),
              drawEndSave(drawEnd(Cur, c, path), c, path, TRUE))
  /\ \A c \in Connected :
       EndsAs(clearCanvasSave(clearCanvas(Cur, c), c, FALSE),
              clearCanvasSave(clearCanvas(Cur, c), c, TRUE))
  /\ \A p \in BagToSet(pending), ok \in BOOLEAN, okSave \in BOOLEAN :
       EndsAs(leaveRoomResumed(Cur, p, ok, okSave),
              leaveRoomResumed(Cur, p, TRUE, TRUE))

\* C29 witness: a handler whose database call was rejected has sent a
\* broadcast to another member of the room.
C29_Witness ==
  /\ \E e \in Emits : e.event = "console.log"
  /\ \E e \in Emits :
       /\ e.event \in {"draw-end", "clear-canvas", "room-joined"}
       /\ e.to \ {e.socket} # {}

\* ------------------------------------------ the server of unnamed/part_000
\* This variant of the server has the maps, handlers and leaveRoom of
\* server.js, but its database calls stand in no try/catch of their own
\* (part_000 lines 519-525, 585-591, 604-610, 641-646).  A rejected call
\* throws at its await: inside the join-room handler the catch block of the
\* handler reports it (lines 526-529); in draw-end, clear-canvas and in a
\* leaveRoom called by leave-room or disconnect nothing handles the
\* rejection.

\* the catch block of the join-room handler, part_000 lines 526-529
vJoinRoomCatch(st, socket) ==
  Emit(st, "error", socket, NoRoom, {socket},
       [message |-> "Failed to join room"])

\* join-room handler, part_000 lines 519-529: the database update
vJoinRoomSave(st, socket, roomId, ok) ==
  IF ~dbConnected THEN st
  ELSE IF ok THEN [st EXCEPT !.db = MapSet(@, roomId, dbLog(@, roomId))]
  ELSE vJoinRoomCatch(st, socket)

\* join-room handler, part_000 lines 480-530, up to its end or to the wait
\* inside leaveRoom
vJoinRoom(st, socket, roomId, userId, ok) ==
  LET n == normalizedRoomId(roomId)
      uid == UserIdOrDefault(userId)
      hasPrev == Has(st.userSessions, socket)
      prevRoom == st.userSessions[socket].roomId
  IN IF hasPrev /\ leaveRoomWaits(st, prevRoom)
     THEN leaveRoomSync(st, socket, prevRoom)
     ELSE vJoinRoomSave(joinRoomBody(
            IF hasPrev THEN leaveRoom(st, socket, prevRoom) ELSE st,
            socket, n, uid), socket, n, ok)

\* socket.on("join-room"), part_000
VJoinRoom(c, roomId, userId, ok) ==
  /\ CanSend(c)
  /\ Commit(vJoinRoom(Cur, c, roomId, userId, ok))
  /\ IF Has(userSessions, c) /\ leaveRoomWaits(Cur, userSessions[c].roomId)
     THEN Suspend(Suspended(c, "join", normalizedRoomId(roomId),
                            UserIdOrDefault(userId)))
     ELSE UNCHANGED pending
  /\ NoRequest
  /\ UNCHANGED <<status, dbConnected>>

\* leaveRoom of part_000 from its database call on (lines 641-648), and the
\* join-room handler that awaited it.  When the call is rejected leaveRoom
\* throws before line 648; the join-room handler catches that at line 526.
vLeaveRoomResumed(st, p, ok, okSave) ==
  IF ok
  THEN LET st1 == leaveRoomDone(st, p.socket)
       IN IF p.cont = "join"
          THEN vJoinRoomSave(joinRoomBody(st1, p.socket, p.roomId, p.userId),
                             p.socket, p.roomId, okSave)
          ELSE st1
  ELSE IF p.cont = "join" THEN vJoinRoomCatch(st, p.socket)
  ELSE st

\* The promise of an async function is rejected and nothing handles it: the
\* runtime either only warns, and the server goes on from state st, or ends
\* the process.  pend is the suspended calls that are left in the first case.
Unhandled(st, pend) ==
  \/ /\ Commit(st)
     /\ pending' = pend
     /\ NoRequest
     /\ UNCHANGED <<status, dbConnected>>
  \/ processExit

\* the database call of a suspended leaveRoom of part_000 settles
VLeaveRoomResume(p, ok, okSave) ==
  /\ BagIn(p, pending)
  /\ p.cont \in {"join", "leave"}
  /\ NoTimerDue
  /\ IF ~ok /\ p.cont = "leave"
     THEN Unhandled(vLeaveRoomResumed(Cur, p, ok, okSave),
                    pending (-) SetToBag({p}))
     ELSE /\ Commit(vLeaveRoomResumed(Cur, p, ok, okSave))
          /\ pending' = pending (-) SetToBag({p})
          /\ NoRequest
          /\ UNCHANGED <<status, dbConnected>>

\* socket.on("draw-end"), part_000 lines 566-592
VDrawEnd(c, path, ok) ==
  /\ CanSend(c)
  /\ LET st == drawEnd(Cur, c, path)
     IN /\ Stored(st.roomDrawings) <= MaxLog
        /\ IF ok \/ ~dbConnected \/ ~Has(userSessions, c)
           THEN /\ Commit(drawEndSave(st, c, path, TRUE))
                /\ NoRequest
                /\ UNCHANGED <<status, pending, dbConnected>>
           ELSE Unhandled(st, pending)

\* socket.on("clear-canvas"), part_000 lines 594-611
VClearCanvas(c, ok) ==
  /\ CanSend(c)
  /\ IF ok \/ ~dbConnected \/ ~Has(userSessions, c)
     THEN /\ Commit(clearCanvasSave(clearCanvas(Cur, c), c, TRUE))
          /\ NoRequest
          /\ UNCHANGED <<status, pending, dbConnected>>
     ELSE Unhandled(clearCanvas(Cur, c), pending)

VariantNext ==
  \/ \E c \in Conns : Connect(c)
  \/ ConnectDB
  \/ \E c \in Conns, r \in RawRoomIds, u \in UserIds, ok \in Outcomes :
       VJoinRoom(c, r, u, ok)
  \/ \E c \in Conns : LeaveRoom(c)
  \/ \E p \in BagToSet(pending), ok \in Outcomes, okSave \in Outcomes :
       VLeaveRoomResume(p, ok, okSave)
  \/ \E c \in Conns : Disconnect(c)
  \/ \E c \in Conns, p \in Paths, ok \in Outcomes : VDrawEnd(c, p, ok)
  \/ \E c \in Conns, ok \in Outcomes : VClearCanvas(c, ok)
  \/ \E t \in BagToSet(timers) : TimerFire(t)
  \/ Tick

VariantSpec == FailInit /\ [][VariantNext]_vars

\* C30: in the server of unnamed/part_000, when the database update of a
\* leave is rejected the leave still completes: the session of the
\* connection is removed, and a join-room that caused the leave joins the
\* new room and sends no error event.
C30_VariantLeaveSurvivesFailure ==
  [][\A p \in BagToSet(pending) :
       VLeaveRoomResume(p, FALSE, TRUE) =>
         IF p.cont = "join"
         THEN /\ Has(userSessions', p.socket)
              /\ userSessions'[p.socket].roomId = p.roomId
              /\ Has(rooms', p.roomId)
              /\ p.socket \in rooms'[p.roomId]
              /\ \A i \in DOMAIN emitted' : emitted'[i].event # "error"
         ELSE ~Has(userSessions', p.socket)]_vars

\* ------------------------------------------------ persistence properties
\* C31: a join-or-create request reads the persisted log only when the
\* room's in-memory log is empty (absent or of length 0), and when the read
\* has found a document the room's in-memory log is the log that was read.
C31_LoadOnlyWhenEmptyThenCache ==
  [][/\ \A roomId \in ApiRoomIds :
          (PostJoin(roomId) /\ pending' # pending) =>
            LogOf(normalizedRoomId(roomId)) = <<>>
     /\ \A p \in BagToSet(pending) :
          (PostJoinResume(p) /\ Has(db, p.roomId)) =>
            /\ Has(roomDrawings', p.roomId)
            /\ roomDrawings'[p.roomId] = db[p.roomId]
            /\ response'.drawingData = db[p.roomId]]_vars

\* C31 witness: a request has just been answered with a log of one stroke or
\* more that it read from the collection, and the room's in-memory log is
\* that log.
C31_Witness ==
  /\ response.status = 200
  /\ response.route = "POST /api/rooms/join"
  /\ response.loaded
  /\ response.drawingData # <<>>
  /\ LogOf(response.roomId) = response.drawingData

\* C32: a draw-end of a connection with a session is always recorded: the
\* log of the session's room exists afterwards and is the log before (empty
\* when the room had no entry) with the stroke of this event at its end.
C32_DrawEndAlwaysRecorded ==
  [][\A c \in Conns, path \in Paths :
       (Has(userSessions, c) /\ DrawEnd(c, path)) =>
         \A r \in {userSessions[c].roomId} :
           /\ Has(roomDrawings', r)
           /\ Len(roomDrawings'[r]) = Len(LogOf(r)) + 1
           /\ SubSeq(roomDrawings'[r], 1, Len(LogOf(r))) = LogOf(r)
           /\ roomDrawings'[r][Len(roomDrawings'[r])].path = path.path
           /\ roomDrawings'[r][Len(roomDrawings'[r])].socketId = c
           /\ roomDrawings'[r][Len(roomDrawings'[r])].type = "stroke"]_vars

\* C32 witness: a draw-end has just been recorded as the only stroke of a
\* room that has no member set and no eviction pending (its log was
\* discarded while the sender's leave waits on the database).
C32_Witness ==
  \E e \in Emits :
    /\ e.event = "draw-end"
    /\ ~Has(rooms, e.room)
    /\ timers = EmptyBag
    /\ Has(roomDrawings, e.room)
    /\ roomDrawings[e.room] = <<e.data>>

\* --------------------------------- the model-backed relay (socketHandlers)
\* socket/socketHandlers.js keeps no log in memory: its handlers read and
\* write the documents of the Room collection through the methods of
\* models/Room.js, next to the router above.  userSessions and roomUsers of
\* that file are the variables userSessions and rooms here.  A socket event
\* is taken when no request waits on the database and runs to its end before
\* the next one, so the schedules in which two handlers overlap are left
\* out; cursor-move and draw-move write no document and are left out too.

NoDoc == [roomId |-> NoRoom]

\* Room.findOne({ roomId }): the document, or NoDoc for null
findOne(coll, roomId) ==
  IF DocsOf(coll, roomId) = {} THEN NoDoc
  ELSE CHOOSE d \in DocsOf(coll, roomId) : TRUE

\* this.save() of a document that was read as `room` and is now `changed`
save(coll, room, changed) ==
  (coll (-) SetToBag({room})) (+) SetToBag({changed})

\* RoomSchema.methods.addDrawingCommand without its save
addDrawingCommand(room, command) ==
  [room EXCEPT !.drawingData = Append(@, command)]

\* RoomSchema.methods.clearCanvas without its save: the log becomes one
\* 'clear' command
RoomClearCanvas(room) ==
  [room EXCEPT !.drawingData =
     <<[type |-> "clear", data |-> EmptyMap, timestamp |-> "new Date()"]>>]

\* the state a handler of socketHandlers.js works on
ModelCur ==
  [rooms |-> rooms, userSessions |-> userSessions, sioRooms |-> sioRooms,
   connected |-> Connected, emitted |-> <<>>, collection |-> collection]

\* handleLeaveRoom, socketHandlers.js lines 314-360
handleLeaveRoom(ms, socket, roomId) ==
  IF roomId = NoRoom THEN ms
  ELSE
    LET ms1 == IF Has(ms.rooms, roomId)
               THEN [ms EXCEPT !.rooms =
                       IF ms.rooms[roomId] \ {socket} = {}
                       THEN MapDelete(@, roomId)
                       ELSE MapSet(@, roomId, ms.rooms[roomId] \ {socket})]
               ELSE ms
        room == findOne(ms1.collection, roomId)
        currentUserCount == Cardinality(MembersIn(ms1, roomId))
        ms2 == IF room # NoDoc
               THEN Emit([ms1 EXCEPT !.collection =
                            save(@, room, [room EXCEPT !.activeUsers =
                                             currentUserCount])],
                         "user-count-update", socket, roomId,
                         IoTo(ms1, roomId), [count |-> currentUserCount])
               ELSE ms1
        ms3 == IF Has(ms2.userSessions, socket)
               THEN Emit(ms2, "user-left", socket, roomId,
                         SocketTo(ms2, socket, roomId),
                         [userId |-> ms2.userSessions[socket].userId,
                          message |-> "A user left the room"])
               ELSE ms2
    IN [ms3 EXCEPT !.userSessions = MapDelete(@, socket),
                   !.sioRooms[roomId] = @ \ {socket}]

\* join-room handler, socketHandlers.js lines 102-166 (userId || socket.id)
modelJoinRoom(ms, socket, roomId, userId) ==
  LET n == normalizedRoomId(roomId)
      user == IF userId = NoUserId THEN <<socket>> ELSE userId
      ms0 == IF Has(ms.userSessions, socket)
             THEN handleLeaveRoom(ms, socket, ms.userSessions[socket].roomId)
             ELSE ms
      ms1 == [ms0 EXCEPT
                !.sioRooms[n] = @ \cup {socket},
                !.userSessions =
                  MapSet(@, socket, [roomId |-> n, userId |-> user]),
                !.rooms = MapSet(@, n, MembersIn(ms0, n) \cup {socket})]
      size == Cardinality(ms1.rooms[n])
      room == findOne(ms1.collection, n)
      ms2 == IF room # NoDoc
             THEN Emit([ms1 EXCEPT !.collection =
                          save(@, room, [room EXCEPT !.activeUsers = size])],
                       "drawing-data", socket, n, {socket},
                       [drawingData |-> room.drawingData])
             ELSE ms1
      ms3 == Emit(ms2, "user-count-update", socket, n, IoTo(ms2, n),
                  [count |-> size])
      ms4 == Emit(ms3, "user-joined", socket, n, SocketTo(ms3, socket, n),
                  [userId |-> user, message |-> "A user joined the room"])
  IN Emit(ms4, "room-joined", socket, n, {socket},
          [roomId |-> n, userId |-> user, userCount |-> size])

\* draw-start (lines 186-215) and draw-end (lines 237-266) handlers: the
\* broadcast to the others, then the command { type: 'stroke', data: { type:
\* phase, ...data } } added to the room's document
modelDraw(ms, socket, event, phase, data) ==
  IF ~Has(ms.userSessions, socket) THEN ms
  ELSE
    LET userSession == ms.userSessions[socket]
        drawData == [userId |-> userSession.userId, socketId |-> socket,
                     timestamp |-> DateNow] @@ data
        ms1 == Emit(ms, event, socket, userSession.roomId,
                    SocketTo(ms, socket, userSession.roomId), drawData)
        room == findOne(ms1.collection, userSession.roomId)
    IN IF room # NoDoc
       THEN [ms1 EXCEPT !.collection =
               save(@, room,
                    addDrawingCommand(room,
                      [type |-> "stroke",
                       data |-> data @@ [type |-> phase]]))]
       ELSE ms1

\* clear-canvas handler, socketHandlers.js lines 269-292
modelClearCanvas(ms, socket) ==
  IF ~Has(ms.userSessions, socket) THEN ms
  ELSE
    LET userSession == ms.userSessions[socket]
        room == findOne(ms.collection, userSession.roomId)
        ms1 == IF room # NoDoc
               THEN [ms EXCEPT !.collection =
                       save(@, room, RoomClearCanvas(room))]
               ELSE ms
    IN Emit(ms1, "clear-canvas", socket, userSession.roomId,
            IoTo(ms1, userSession.roomId),
            [userId |-> userSession.userId, timestamp |-> DateNow])

\* the commands in all documents of the collection together
RECURSIVE DocLogs(_)
DocLogs(S) ==
  IF S = {} THEN 0
  ELSE LET d == CHOOSE x \in S : TRUE
       IN Len(d.drawingData) + DocLogs(S \ {d})

\* Write the record a handler of socketHandlers.js ends with back.
ModelCommit(ms) ==
  /\ DocLogs(BagToSet(ms.collection)) <= MaxLog
  /\ rooms' = ms.rooms
  /\ userSessions' = ms.userSessions
  /\ sioRooms' = ms.sioRooms
  /\ emitted' = ms.emitted
  /\ collection' = ms.collection
  /\ response' = NoResponse
  /\ fired' = NoRoom
  /\ UNCHANGED <<roomDrawings, timers, pending, dbConnected, db, dbTracked,
                 roomIdIn, roomIdOut, timerCap, dbFaulty>>

\* socket c can deliver an event to socketHandlers.js
ModelCanSend(c) == status[c] = "connected" /\ pending = EmptyBag

ModelJoinRoom(c, roomId, userId) ==
  /\ ModelCanSend(c)
  /\ ModelCommit(modelJoinRoom(ModelCur, c, roomId, userId))
  /\ UNCHANGED status

ModelDrawStart(c) ==
  /\ ModelCanSend(c)
  /\ ModelCommit(modelDraw(ModelCur, c, "draw-start", "start", StartData))
  /\ UNCHANGED status

ModelDrawEnd(c) ==
  /\ ModelCanSend(c)
  /\ ModelCommit(modelDraw(ModelCur, c, "draw-end", "complete", StrokeData))
  /\ UNCHANGED status

ModelClearCanvas(c) ==
  /\ ModelCanSend(c)
  /\ ModelCommit(modelClearCanvas(ModelCur, c))
  /\ UNCHANGED status

\* leave-room handler, socketHandlers.js lines 295-300
ModelLeaveRoom(c) ==
  /\ ModelCanSend(c)
  /\ ModelCommit(IF Has(userSessions, c)
                 THEN handleLeaveRoom(ModelCur, c, userSessions[c].roomId)
                 ELSE ModelCur)
  /\ UNCHANGED status

\* disconnect handler, socketHandlers.js lines 303-310
ModelDisconnect(c) ==
  /\ ModelCanSend(c)
  /\ status' = [status EXCEPT ![c] = "disconnected"]
  /\ ModelCommit(IF Has(userSessions, c)
                 THEN handleLeaveRoom([ModelCur EXCEPT !.connected = @ \ {c}],
                                      c, userSessions[c].roomId)
                 ELSE ModelCur)

ModelNext ==
  \/ RouterNext
  \/ \E c \in Conns : Connect(c)
  \/ \E c \in Conns, r \in RawRoomIds, u \in UserIds \cup {NoUserId} :
       ModelJoinRoom(c, r, u)
  \/ \E c \in Conns : ModelDrawStart(c)
  \/ \E c \in Conns : ModelDrawEnd(c)
  \/ \E c \in Conns : ModelClearCanvas(c)
  \/ \E c \in Conns : ModelLeaveRoom(c)
  \/ \E c \in Conns : ModelDisconnect(c)

ModelSpec == Init /\ [][ModelNext]_vars

\* C33: after a clear-canvas of the model-backed relay the document of the
\* room has an empty drawing log, and the join-or-create request answered
\* from that document returns a log of length 0.
C33_ClearTruncatesDocument ==
  \A e \in Emits :
    e.event = "clear-canvas" =>
      \A d \in DocsOf(collection, e.room) :
        /\ d.drawingData = <<>>
        /\ Len(routerJoinResponse(d).drawingData) = 0

\* ------------------------------------------------- the persistence mirror
\* The server with the database connected before the first event, and the
\* findOneAndUpdate calls of draw-end and clear-canvas followed one by one:
\* a call is issued by its handler and reaches the collection later, and two
\* calls that are both under way (the driver sends them over a pool of
\* connections) reach it in either order.  The calls of join-room and
\* leaveRoom write activeUsers and lastActivity only and are kept as above.
MirrorInit ==
  /\ status = [c \in Conns |-> "new"]
  /\ rooms = EmptyMap
  /\ userSessions = EmptyMap
  /\ roomDrawings = EmptyMap
  /\ sioRooms = [r \in RoomKeys |-> {}]
  /\ timers = EmptyBag
  /\ pending = EmptyBag
  /\ dbConnected = TRUE
  /\ emitted = <<>>
  /\ db = EmptyMap
  /\ response = NoResponse
  /\ roomIdIn = <<>>
  /\ roomIdOut = <<>>
  /\ collection = EmptyBag
  /\ fired = NoRoom
  /\ dbTracked = TRUE
  /\ Defaults

\* a findOneAndUpdate of draw-end ("push", lines 208-215) or clear-canvas
\* ("clear", lines 241-248) that is under way
Update(socket, cont, roomId, drawData) ==
  [socket |-> socket, cont |-> cont, roomId |-> roomId, userId |-> NoUserId,
   drawData |-> drawData]

Updates == {p \in BagToSet(pending) : p.cont \in {"push", "clear"}}

\* the handler issues its call when it has a session (it returned before
\* otherwise)
Issue(c, p) ==
  IF Has(userSessions, c)
  THEN /\ BagCardinality([u \in Updates |-> pending[u]]) < MaxInFlight
       /\ pending' = pending (+) SetToBag({p})
  ELSE UNCHANGED pending

\* socket.on('draw-end'), lines 184-222, up to the await of line 208
MirrorDrawEnd(c, path) ==
  /\ CanSend(c)
  /\ LET st == drawEnd(Cur, c, path)
     IN /\ Stored(st.roomDrawings) <= MaxLog
        /\ Commit(st)
        /\ Issue(c, Update(c, "push", userSessions[c].roomId,
                           st.emitted[1].data))
  /\ NoRequest
  /\ UNCHANGED <<status, dbConnected>>

\* socket.on('clear-canvas'), lines 225-255, up to the await of line 241
MirrorClearCanvas(c) ==
  /\ CanSend(c)
  /\ Commit(clearCanvas(Cur, c))
  /\ Issue(c, Update(c, "clear", userSessions[c].roomId, <<>>))
  /\ NoRequest
  /\ UNCHANGED <<status, dbConnected>>

\* the call reaches the collection: $push of the stroke, or drawingData: [],
\* each with upsert; the handler then only logs (lines 221 and 254)
UpdateSettles(p) ==
  /\ BagIn(p, pending)
  /\ p.cont \in {"push", "clear"}
  /\ NoTimerDue
  /\ LET log == IF p.cont = "push"
                THEN Append(dbLog(db, p.roomId), p.drawData)
                ELSE <<>>
     IN /\ Len(log) <= MaxLog
        /\ db' = MapSet(db, p.roomId, log)
  /\ pending' = pending (-) SetToBag({p})
  /\ emitted' = <<>>
  /\ NoRequest
  /\ UNCHANGED <<status, rooms, userSessions, roomDrawings, sioRooms, timers,
                 dbConnected>>

MirrorNext ==
  \/ \E c \in ApiConns : Connect(c)
  \/ \E c \in ApiConns, r \in ApiRoomIds, u \in UserIds : JoinRoom(c, r, u)
  \/ \E c \in ApiConns : LeaveRoom(c)
  \/ \E p \in BagToSet(pending) : LeaveRoomResume(p)
  \/ \E c \in ApiConns : Disconnect(c)
  \/ \E c \in ApiConns, p \in Paths : MirrorDrawEnd(c, p)
  \/ \E c \in ApiConns : MirrorClearCanvas(c)
  \/ \E p \in BagToSet(pending) : UpdateSettles(p)
  \/ \E t \in BagToSet(timers) : TimerFire(t)
  \/ Tick

MirrorSpec == MirrorInit /\ [][MirrorNext]_vars

\* C34: when no database call is under way, the persisted drawing log of
\* every room that has an in-memory log equals that in-memory log.
C34_MirrorReconciles ==
  pending = EmptyBag =>
    \A r \in DOMAIN roomDrawings : dbLog(db, r) = roomDrawings[r]

\* ------------------------------------------------ the client's snapshot
\* DrawingCanvas.jsx: what the drawing-data handler leaves on the canvas.
\* A canvas is the sequence of the paths drawn on it; thrown says that the
\* handler ended with an exception.
BlankCanvas == [drawn |-> <<>>, thrown |-> FALSE]

\* drawPath, lines 101-122: a path of fewer than two points is not drawn
drawPath(canvas, pathData) ==
  IF ~Has(pathData, "path") \/ Len(pathData.path) < 2 THEN canvas
  ELSE [canvas EXCEPT !.drawn = Append(@, pathData.path)]

\* data.drawingData.forEach(...), lines 60-69.  A command without a data
\* property has command.data undefined, and reading .type of it throws a
\* TypeError, which ends the forEach.
RECURSIVE replay(_, _)
replay(canvas, commands) ==
  IF commands = <<>> THEN canvas
  ELSE LET command == Head(commands)
       IN IF command.type = "clear"
          THEN replay(BlankCanvas, Tail(commands))
          ELSE IF command.type = "stroke"
          THEN IF ~Has(command, "data")
               THEN [canvas EXCEPT !.thrown = TRUE]
               ELSE IF Has(command.data, "type")
                       /\ command.data.type = "complete"
               THEN replay(drawPath(canvas, command.data), Tail(commands))
               ELSE replay(canvas, Tail(commands))
          ELSE replay(canvas, Tail(commands))

\* handleDrawingData, lines 53-70
handleDrawingData(data) == replay(BlankCanvas, data.drawingData)

\* C35: the client's drawing-data handler draws every stroke of a snapshot
\* the server sends: it ends without an exception, and the canvas holds the
\* path of each recorded stroke, in the order of the log.
C35_SnapshotStrokesDrawn ==
  \A e \in Emits :
    e.event = "drawing-data" =>
      LET log == e.data.drawingData
          canvas == handleDrawingData(e.data)
      IN /\ ~canvas.thrown
         /\ canvas.drawn = [i \in 1..Len(log) |-> log[i].path]

\* ------------------------------------------- membership and disconnects
\* the counts of GET /api/health, lines 319-330
health ==
  [activeRooms |-> Cardinality(DOMAIN rooms),
   totalUsers |-> Cardinality(DOMAIN userSessions)]

\* C36: while no handler waits on a database call, a connection is in the
\* member set of room R exactly when it has a session whose room is R; a
\* connection that has disconnected is in no member set and has no session,
\* so the totals of the health endpoint count connected sockets only.
C36_MembersAreSessions ==
  pending = EmptyBag =>
    /\ \A c \in Conns, r \in RoomKeys :
         (c \in Members(r)) <=>
           (Has(userSessions, c) /\ userSessions[c].roomId = r)
    /\ \A c \in Conns :
         status[c] = "disconnected" =>
           RoomsOf(c) = {} /\ ~Has(userSessions, c)
    /\ health.totalUsers <= Cardinality(Connected)

\* C37: a draw-end or clear-canvas is applied to the log of a room and
\* broadcast to it (the handler does both or neither) only when its sender
\* is in the member set of that room at the time the event is processed.
C37_OnlyMembersChangeLog ==
  \A e \in Emits :
    e.event \in {"draw-end", "clear-canvas"} => e.socket \in e.members

\* C38: every stroke recorded in room R while R has a log is seen exactly
\* once by a connection that joins R and stays: the snapshot of its join is
\* the log as it was before the join (which the join leaves as it is), a
\* stroke recorded later is added to the log once and broadcast to every
\* connected member but its sender, and no step sends a stroke both ways.
C38_EachStrokeSeenOnce ==
  [][\A i \in DOMAIN emitted' :
       LET e == emitted'[i]
       IN /\ (e.event = "drawing-data" /\ Has(roomDrawings, e.room)) =>
               /\ e.data.drawingData = roomDrawings[e.room]
               /\ roomDrawings'[e.room] = roomDrawings[e.room]
          /\ e.event = "draw-end" =>
               /\ roomDrawings'[e.room] = Append(LogOf(e.room), e.data)
               /\ e.to = (e.members \cap Connected') \ {e.socket}
               /\ \A j \in DOMAIN emitted' :
                    emitted'[j].event # "drawing-data"]_vars

\* C39: whenever the log map has an entry for a room that has no member set,
\* an eviction timer for that room is pending.
C39_OrphanLogHasTimer ==
  \A r \in DOMAIN roomDrawings :
    ~Has(rooms, r) => \E t \in BagToSet(timers) : t.roomId = r
====
